---- MODULE Spec2Model ----
(***************************************************************************)
(* A model of the portfolio site: the BlogPost page and its markdown       *)
(* loader, the ProjectsSection filters, the Navigation bar, the hash       *)
(* navigation of the Index page, the ContactSection form and the           *)
(* MermaidDiagram component.  Components that are not mounted keep the     *)
(* values of their useState initialisers.                                  *)
(***************************************************************************)
EXTENDS Integers, Sequences, FiniteSets, TLC

(***************************************************************************)
(* Bounds of the model.                                                    *)
(***************************************************************************)
\* how many loads of a blog post (mounts or slug changes of BlogPost) a run starts
MaxLoads == 2
\* how many times the contact form is submitted in a run
MaxSubmits == 2
\* how many renders of a diagram a run starts
MaxRenders == 3
\* the step of the clock, in milliseconds
TickMs == 100
\* how many h1 headings a markdown document explored has at most
MaxH1s == 2

(***************************************************************************)
(* Program constants.                                                      *)
(***************************************************************************)
\* Index.tsx: the delay of the setTimeout before scrollIntoView
ScrollDelayMs == 100
\* ContactSection: the delay of the setTimeout before the form is reset
ResetDelayMs == 500
\* Navigation: scrollPosition = window.scrollY + 100
ScrollSpyOffset == 100

(***************************************************************************)
(* Static data (constants.ts, data/blog-posts, ProjectsSection.tsx).       *)
(***************************************************************************)
\* BLOG_POSTS, reduced to the fields the code under study reads; featured is
\* false where the literal leaves it out
BLOG_POSTS ==
  << [id |-> "1", slug |-> "production-ready-rag-systems", featured |-> TRUE,
      title |-> "Building Production-Ready RAG Systems: Lessons from Enterprise AI"],
     [id |-> "2", slug |-> "llm-creative-content-generation", featured |-> TRUE,
      title |-> "LLM-Powered Creative Content Generation: Automating Ad Script Writing"],
     [id |-> "3", slug |-> "document-processing-apis", featured |-> FALSE,
      title |-> "Document Processing at Scale: Translation and Summarization APIs"],
     [id |-> "4", slug |-> "prompt-engineering-enterprise", featured |-> FALSE,
      title |-> "Prompt Engineering for Business Applications: CRM Optimization"],
     [id |-> "5", slug |-> "debugging-llm-applications", featured |-> FALSE,
      title |-> "Debugging LLM Applications: Common Pitfalls and Solutions"],
     [id |-> "6", slug |-> "langgraph-complex-workflows", featured |-> FALSE,
      title |-> "LangGraph for Complex AI Workflows: Beyond Simple Chains"] >>

\* NAV_ITEMS, by id
NAV_ITEMS == <<"home", "about", "projects", "blog", "contact">>

\* the markdown files present under data/blog-posts (file name without .md)
MdFiles ==
  { "production-ready-rag-systems", "llm-creative-content-generation",
    "document-processing-apis", "prompt-engineering-enterprise",
    "debugging-llm-applications", "langgraph-complex-workflows" }

\* the projects array of ProjectsSection, reduced to the fields that
\* filteredProjects reads; featured is false where the literal leaves it out
PROJECTS ==
  << [id |-> "carrefour-rag", categories |-> <<"RAG", "NLP", "Production">>,
      company |-> "Publicis Re:Sources", featured |-> TRUE],
     [id |-> "multimodal-ai-enhancement",
      categories |-> <<"Multimodal", "AI Enhancement", "Production">>,
      company |-> "Publicis Re:Sources", featured |-> TRUE],
     [id |-> "conversational-ai-maintenance",
      categories |-> <<"Maintenance", "Testing", "Performance", "Production">>,
      company |-> "Publicis Re:Sources", featured |-> FALSE],
     [id |-> "textstudio-api", categories |-> <<"Production", "Microservices", "DevOps">>,
      company |-> "Publicis Re:Sources", featured |-> TRUE],
     [id |-> "smart-home-assistant", categories |-> <<"IoT", "Voice AI", "RAG">>,
      company |-> "Green Energy Park ", featured |-> TRUE],
     [id |-> "moodai-therapy", categories |-> <<"Healthcare", "NLP", "Full-Stack">>,
      company |-> "Personal Project", featured |-> TRUE],
     [id |-> "salesforce-optimization", categories |-> <<"NLP", "Optimization", "CRM">>,
      company |-> "Publicis Re:Sources", featured |-> FALSE],
     [id |-> "llm-clustering-framework",
      categories |-> <<"Clustering", "Research", "Evaluation">>,
      company |-> "Personal Project", featured |-> TRUE],
     [id |-> "medical-thesis-statistical-analysis",
      categories |-> <<"Healthcare", "Statistics", "Research", "Data Analysis">>,
      company |-> "Freelance Client", featured |-> FALSE],
     [id |-> "nameplate-information-extraction",
      categories |-> <<"NLP", "OCR", "Information Extraction", "Machine Learning">>,
      company |-> "Personal Project", featured |-> FALSE] >>

\* companyFilters
companyFilters == {"All", "Publicis Re:Sources", "Green Energy Park ", "Personal/Freelance"}

\* the ids of the elements of the home page: the five sections and the four
\* inputs of the contact form
HomeElementIds ==
  {"home", "about", "projects", "blog", "contact", "name", "email", "subject", "message"}

(***************************************************************************)
(* The inputs of the runs explored.                                        *)
(***************************************************************************)
\* the slugs a URL /blog/:slug carries: two posts and a slug that names no post
UrlSlugs ==
  { "production-ready-rag-systems", "llm-creative-content-generation", "no-such-post" }

\* the hash of a location '/#<id>' reached through the history of the browser:
\* an id that no element has
HistoryIds == {"nope"}

\* the technology filter buttons pressed (a part of the categories list)
ClickedCategories == {"All", "RAG", "NLP", "Research"}

\* the values of window.scrollY at a scroll event; a negative value is the
\* overscroll of a touch browser
ScrollYs == {0 - 150, 0, 60, 140, 300, 500}

\* the values of offsetTop a section can have
Offsets == {80, 160, 240, 320, 400}

VARIABLES
  route,      \* "home" (path "/") or "blog" (path "/blog/:slug")
  slug,       \* useParams().slug on the blog page, "" on the home page
  hash,       \* location.hash, as a sequence of characters
  blogPosts,  \* the BLOG_POSTS array object
  projects,   \* the projects array object of ProjectsSection
  content,    \* BlogPost state
  loading,    \* BlogPost state
  error,      \* BlogPost state
  loads,      \* the calls of loadBlogPost, in the order they were started
  requests,   \* the URLs requested from the network so far, each with its load
  activeFilters,        \* ProjectsSection state
  activeCompanyFilter,  \* ProjectsSection state
  showCompanyDropdown,  \* ProjectsSection state
  showTechFilters,      \* ProjectsSection state
  showAllProjects,      \* ProjectsSection state
  isOpen,         \* Navigation state
  activeSection,  \* Navigation state
  scrollY,        \* window.scrollY
  offsetTop,      \* the offsetTop of each section of the home page
  navLog,         \* what the last click on a navigation item called
  spyLog,         \* activeSection before the last scroll event handled
  timers,         \* the pending setTimeout callbacks
  hashChanges,    \* the runs of the hash effect of Index, in order
  formData,       \* ContactSection state
  isSubmitting,   \* ContactSection state
  href,           \* window.location.href when it was set to a mailto URL
  toast,          \* the last toast shown
  submits,        \* the calls of handleSubmit, in order
  mounted,        \* MermaidDiagram: elementRef.current is set
  chart,          \* MermaidDiagram: the chart prop
  innerHTML,      \* MermaidDiagram: the innerHTML of the container
  renders,        \* MermaidDiagram: the calls of renderDiagram, in order
  title,          \* document.title
  head,           \* the script elements of document.head, in order
  article,        \* BlogPost: the h1 headings of the last render of the markdown
  mode,           \* the mode the site was built in
  resumeHref      \* the path of the href of the last link the Resume button clicked

pageVars == <<route, slug, hash>>
dataVars == <<blogPosts, projects>>
blogVars == <<content, loading, error>>
loadVars == <<loads, requests>>
projVars == <<activeFilters, activeCompanyFilter, showCompanyDropdown,
              showTechFilters, showAllProjects>>
navVars == <<isOpen, activeSection, navLog, spyLog>>
windowVars == <<scrollY, offsetTop>>
timeVars == <<timers, hashChanges>>
formVars == <<formData, isSubmitting>>
mailVars == <<href, toast, submits>>
mermaidVars == <<mounted, chart, innerHTML, renders>>
docVars == <<title, head, article>>
buildVars == <<mode, resumeHref>>

vars == <<pageVars, dataVars, blogVars, loadVars, projVars, navVars, windowVars,
          timeVars, formVars, mailVars, mermaidVars, docVars, buildVars>>

(***************************************************************************)
(* Values.                                                                 *)
(***************************************************************************)
\* the text of the markdown file <slug>.md
Markdown(s) == <<"md", s>>

\* the static message of setError
LoadFailedMessage == "Failed to load blog post content."

\* a fetch of one file whatever the slug
FetchUrlOfFirstPost(s) == <<"/src/data/blog-posts/", BLOG_POSTS[1].slug, ".md">>

\* the URL of the fetch and the specifier of the dynamic import of a slug
FetchUrl(s) == <<"/src/data/blog-posts/", s, ".md">>
ImportSpecifier(s) == <<"../data/blog-posts/", s, ".md?raw">>

\* location.hash of the path '/#<id>', and no hash
HashOf(id) == <<"#", id>>
NoHash == << >>

\* useState of ContactSection
EmptyForm == [name |-> << >>, email |-> << >>, subject |-> << >>, message |-> << >>]

(***************************************************************************)
(* Array methods: the value returned and the receiver after the call.      *)
(***************************************************************************)
\* BlogPost: BLOG_POSTS.filter(post => post.slug !== slug)
RECURSIVE OtherPosts(_, _)
OtherPosts(posts, s) ==
  IF posts = << >> THEN << >>
  ELSE IF Head(posts).slug # s
         THEN <<Head(posts)>> \o OtherPosts(Tail(posts), s)
         ELSE OtherPosts(Tail(posts), s)

\* Array.prototype.slice(0, n)
SliceTo(arr, n) == [i \in 1..(IF Len(arr) < n THEN Len(arr) ELSE n) |-> arr[i]]

\* a More Articles list that removes the current post from the array it reads
MoreArticlesInPlace(posts, s) ==
  [ret |-> SliceTo(OtherPosts(posts, s), 2), self |-> OtherPosts(posts, s)]

\* a More Articles list that slices before it filters
MoreArticlesSliceFirst(posts, s) ==
  [ret |-> OtherPosts(SliceTo(posts, 2), s), self |-> posts]

\* BlogPost: BLOG_POSTS.filter(post => post.slug !== slug).slice(0, 2); filter
\* and slice build new arrays
MoreArticles(posts, s) ==
  [ret |-> SliceTo(OtherPosts(posts, s), 2), self |-> posts]

\* BLOG_POSTS.find(post => post.slug === slug): the index, 0 for undefined
RECURSIVE FindFrom(_, _, _)
FindFrom(posts, s, i) ==
  IF i > Len(posts) THEN 0
  ELSE IF posts[i].slug = s THEN i
  ELSE FindFrom(posts, s, i + 1)

\* the BLOG_POSTS array after a render of BlogPost: the not-found view reads it
\* with find alone, the post view renders the More Articles list too
PostsAfterBlogRender(posts, s) ==
  IF FindFrom(posts, s, 1) = 0 THEN posts ELSE MoreArticles(posts, s).self

\* BlogSection: BLOG_POSTS.filter(post => post.featured) and
\* BLOG_POSTS.filter(post => !post.featured).slice(0, 4)
BlogSectionLists(posts) ==
  [featuredPosts |-> SelectSeq(posts, LAMBDA p : p.featured),
   recentPosts |-> SliceTo(SelectSeq(posts, LAMBDA p : ~p.featured), 4),
   self |-> posts]

(***************************************************************************)
(* BlogPost: loadBlogPost.                                                 *)
(***************************************************************************)
\* a load that starts the import without awaiting the fetch
StartLoadConcurrently(s) ==
  [ slug |-> s, live |-> TRUE, pc |-> "fetch",
    fetchInFlight |-> TRUE, importInFlight |-> TRUE,
    fetches |-> 1, imports |-> 1,
    fetched |-> "pending", body |-> "unread", imported |-> << >>,
    calledSetContent |-> FALSE, calledSetError |-> FALSE ]

\* the call of loadBlogPost up to its first await: setLoading(true) has run
\* and the fetch is in flight
StartLoad(s) ==
  [ slug |-> s, live |-> TRUE, pc |-> "fetch",
    fetchInFlight |-> TRUE, importInFlight |-> FALSE,
    fetches |-> 1, imports |-> 0,
    fetched |-> "pending", body |-> "unread", imported |-> << >>,
    calledSetContent |-> FALSE, calledSetError |-> FALSE ]

\* import(`../data/blog-posts/${slug}.md?raw`) is issued
StartImport(l, at) ==
  [l EXCEPT !.pc = at, !.importInFlight = TRUE, !.imports = @ + 1]

\* the finally block has run: the call is over
Finish(l) == [l EXCEPT !.pc = "done"]

\* what the server answers with 200 at /src/data/blog-posts/<slug>.md: the file,
\* or the single-page fallback document when there is no such file
ServedBody(s) == IF s \in MdFiles THEN Markdown(s) ELSE <<"html", "index">>

\* the outcomes of the dynamic import: it can succeed only for a bundled file
ImportOutcomes(s) == IF s \in MdFiles THEN {"ok", "failed"} ELSE {"failed"}

\* a setState call of a component that was unmounted is dropped
SetIfLive(l, old, new) == IF l.live THEN new ELSE old

\* the calls of loadBlogPost after BlogPost unmounted
Orphaned(ls) == [i \in DOMAIN ls |-> [ls[i] EXCEPT !.live = FALSE]]

\* the pending timers after the home page unmounted
Detached(ts) == [k \in DOMAIN ts |-> [ts[k] EXCEPT !.live = FALSE]]

\* await fetch(...) settles: the else branch, the if branch, or the catch
FetchSettled(l, outcome) ==
  LET s == [l EXCEPT !.fetchInFlight = FALSE, !.fetched = outcome]
  IN  CASE outcome = "ok"       -> [s EXCEPT !.pc = "text"]
        [] outcome = "notOk"    -> StartImport(s, "tryImport")
        [] outcome = "rejected" -> StartImport(s, "catchImport")

\* await response.text() settles; a rejection goes to the catch
TextSettled(l, ok) ==
  IF ok THEN Finish([l EXCEPT !.body = "read", !.calledSetContent = TRUE])
  ELSE StartImport([l EXCEPT !.body = "failed"], "catchImport")

\* the import of the try block settles; a rejection goes to the catch
TryImportSettled(l, outcome) ==
  LET s == [l EXCEPT !.importInFlight = FALSE, !.imported = Append(@, outcome)]
  IN  IF outcome = "ok"
        THEN Finish([s EXCEPT !.calledSetContent = TRUE])
        ELSE StartImport(s, "catchImport")

\* the import of the catch block settles; the inner catch sets the error
CatchImportSettled(l, outcome) ==
  LET s == [l EXCEPT !.importInFlight = FALSE, !.imported = Append(@, outcome)]
  IN  IF outcome = "ok"
        THEN Finish([s EXCEPT !.calledSetContent = TRUE])
        ELSE Finish([s EXCEPT !.calledSetError = TRUE])

\* the requests of the imports a step of the i-th load has started
ImportRequests(i, before, after) ==
  IF after.imports > before.imports
    THEN {[load |-> i, url |-> ImportSpecifier(after.slug)]}
    ELSE {}

(***************************************************************************)
(* ProjectsSection.                                                        *)
(***************************************************************************)
\* Array.prototype.includes
Includes(arr, x) == \E i \in DOMAIN arr : arr[i] = x

\* useState of ProjectsSection
ProjectsInit(af, acf, scd, stf, sap) ==
  /\ af = <<"All">>
  /\ acf = "All"
  /\ scd = FALSE
  /\ stf = FALSE
  /\ sap = FALSE

\* the updater of handleFilterToggle, on the previous activeFilters
handleFilterToggle(prev, category) ==
  IF category = "All" THEN <<"All">>
  ELSE LET newFilters == SelectSeq(prev, LAMBDA f : f # "All")
       IN  IF Includes(newFilters, category)
             THEN LET updated == SelectSeq(newFilters, LAMBDA f : f # category)
                  IN  IF Len(updated) = 0 THEN <<"All">> ELSE updated
             ELSE Append(newFilters, category)

\* featured and company steps that compare the company with the filter only
FeaturedAndCompanyExactMatch(arr, sap, acf) ==
  LET byFeatured == IF ~sap THEN SelectSeq(arr, LAMBDA p : p.featured) ELSE arr
  IN  IF acf # "All" THEN SelectSeq(byFeatured, LAMBDA p : p.company = acf)
      ELSE byFeatured

\* the featured and company steps of filteredProjects
FeaturedAndCompany(arr, sap, acf) ==
  LET byFeatured == IF ~sap THEN SelectSeq(arr, LAMBDA p : p.featured) ELSE arr
  IN  IF acf # "All"
        THEN IF acf = "Personal/Freelance"
               THEN SelectSeq(byFeatured, LAMBDA p :
                      p.company = "Personal Project" \/ p.company = "Freelance Client")
               ELSE SelectSeq(byFeatured, LAMBDA p : p.company = acf)
        ELSE byFeatured

\* a filteredProjects that leaves the category step out
filteredProjectsNoCategoryStep(arr, sap, acf, af) ==
  [ret |-> FeaturedAndCompany(arr, sap, acf), self |-> arr]

\* filteredProjects: the list displayed (ret) and the projects array after the
\* call (self); filter builds new arrays
filteredProjects(arr, sap, acf, af) ==
  LET filtered == FeaturedAndCompany(arr, sap, acf)
  IN  [ret |-> IF Includes(af, "All") THEN filtered
               ELSE SelectSeq(filtered, LAMBDA p :
                      \E i \in DOMAIN p.categories : Includes(af, p.categories[i])),
       self |-> arr]

\* the list ProjectsSection displays
Displayed ==
  filteredProjects(projects, showAllProjects, activeCompanyFilter, activeFilters).ret

\* a listener that closes the dropdown on every mousedown
handleClickOutsideAlwaysCloses(prev, inside) == FALSE

\* handleClickOutside: the new showCompanyDropdown after a mousedown on a node
\* inside or outside the container of dropdownRef
handleClickOutside(prev, inside) == IF ~inside THEN FALSE ELSE prev

(***************************************************************************)
(* Navigation and the hash effect of Index.                                *)
(***************************************************************************)
\* the layouts of the home page: the sections follow each other in the order
\* of NAV_ITEMS, the first at the top of the page
Layouts ==
  { l \in [1..Len(NAV_ITEMS) -> Offsets \cup {0}] :
      /\ l[1] = 0
      /\ \A i \in 1..(Len(NAV_ITEMS) - 1) : l[i] < l[i + 1] }

\* document.getElementById(id) finds an element: the sections and the form
\* inputs exist on the home page only
ElementExists(page, id) == page = "home" /\ id \in HomeElementIds

\* a scan from the first section to the last
RECURSIVE ScanForward(_, _, _, _)
ScanForward(i, pos, lay, page) ==
  IF i > Len(NAV_ITEMS) THEN 0
  ELSE IF ElementExists(page, NAV_ITEMS[i]) /\ lay[i] <= pos THEN i
  ELSE ScanForward(i + 1, pos, lay, page)

\* the for loop of handleScroll, from the last section to the first: the index
\* of the section it stops at, 0 if it stops at none
RECURSIVE ScanBackward(_, _, _, _)
ScanBackward(i, pos, lay, page) ==
  IF i < 1 THEN 0
  ELSE IF ElementExists(page, NAV_ITEMS[i]) /\ lay[i] <= pos THEN i
  ELSE ScanBackward(i - 1, pos, lay, page)

\* a handleScroll without the early return on a blog-post page
handleScrollOnEveryPage(prev, page, y, lay) ==
  LET hit == ScanBackward(Len(NAV_ITEMS), y + ScrollSpyOffset, lay, "home")
  IN  IF hit = 0 THEN prev ELSE NAV_ITEMS[hit]

\* a handleScroll that takes the first section that qualifies
handleScrollFirstMatch(prev, page, y, lay) ==
  IF page = "blog" THEN prev
  ELSE LET hit == ScanForward(1, y + ScrollSpyOffset, lay, page)
       IN  IF hit = 0 THEN prev ELSE NAV_ITEMS[hit]

\* handleScroll: the new activeSection
handleScroll(prev, page, y, lay) ==
  IF page = "blog" THEN prev
  ELSE LET hit == ScanBackward(Len(NAV_ITEMS), y + ScrollSpyOffset, lay, page)
       IN  IF hit = 0 THEN prev ELSE NAV_ITEMS[hit]

\* a handleScrollToSection that scrolls on every page
handleScrollToSectionAlwaysScrolls(isBlogPostPage, sectionId) ==
  [navigated |-> << >>, scrolled |-> sectionId, isOpen |-> FALSE]

\* handleScrollToSection: the path it navigates to, the section it calls
\* scrollToSection with, and the isOpen it sets
handleScrollToSection(isBlogPostPage, sectionId) ==
  IF isBlogPostPage
    THEN [navigated |-> <<"/", "#", sectionId>>, scrolled |-> "", isOpen |-> FALSE]
    ELSE [navigated |-> << >>, scrolled |-> sectionId, isOpen |-> FALSE]

\* a hash effect that calls scrollIntoView without a delay
HashEffectTimerNoDelay(h, k) ==
  IF h # NoHash /\ ElementExists("home", Tail(h)[1])
    THEN << [kind |-> "scrollIntoView", delay |-> 0, waited |-> 0,
             live |-> TRUE, change |-> k] >>
    ELSE << >>

\* the hash effect of Index: the timer it sets, if any, for the k-th run
HashEffectTimer(h, k) ==
  IF h # NoHash /\ ElementExists("home", Tail(h)[1])
    THEN << [kind |-> "scrollIntoView", delay |-> ScrollDelayMs, waited |-> 0,
             live |-> TRUE, change |-> k] >>
    ELSE << >>

\* the record of a run of the hash effect with a hash
HashEffectRun(h) ==
  IF h # NoHash
    THEN << [id |-> Tail(h)[1], scheduled |-> HashEffectTimer(h, 0) # << >>,
             calls |-> 0, waited |-> 0] >>
    ELSE << >>

\* a sequence without its k-th element
Without(seq, k) == [i \in 1..(Len(seq) - 1) |-> IF i < k THEN seq[i] ELSE seq[i + 1]]

(***************************************************************************)
(* ContactSection: handleSubmit.  Strings are sequences of characters.     *)
(***************************************************************************)
\* a UTF-16 surrogate code unit with no partner
LoneSurrogate == "<U+D800>"

\* the character U+00E9, two bytes in UTF-8, and the line feed
EAcute == "<U+00E9>"
LineFeed == "<LF>"

\* CONTACT_INFO.email
ContactEmail ==
  << "A", "y", "m", "a", "n", "e", ".", "N", "o", "u", "h", "a", "i", "l",
     "@", "g", "m", "a", "i", "l", ".", "c", "o", "m" >>

\* the values typed into the fields in the runs explored; a text input holds no
\* line break, the textarea can
FieldValues ==
  [ name    |-> { << >>, <<"A", "l">>, <<"Z", "o", EAcute>> },
    email   |-> { << >>, <<"a", "@", "b", ".", "c">> },
    subject |-> { << >>, <<"Q", "&", "A", "=", "?">>, <<"h", "i", LoneSurrogate>> },
    message |-> { << >>, <<"1", "0", "%", " ", "o", "k", LineFeed, ":", ")">>,
                  <<LoneSurrogate>> } ]

\* the escape of each character of the runs explored that encodeURIComponent
\* escapes: the bytes of its UTF-8 encoding, in hexadecimal
Escapes ==
  [ c \in {" ", LineFeed, "%", "&", "=", "?", "@", ":", EAcute} |->
      CASE c = " "  -> <<"%", "2", "0">>
        [] c = LineFeed -> <<"%", "0", "A">>
        [] c = "%"  -> <<"%", "2", "5">>
        [] c = "&"  -> <<"%", "2", "6">>
        [] c = "="  -> <<"%", "3", "D">>
        [] c = "?"  -> <<"%", "3", "F">>
        [] c = "@"  -> <<"%", "4", "0">>
        [] c = ":"  -> <<"%", "3", "A">>
        [] c = EAcute  -> <<"%", "C", "3", "%", "A", "9">> ]

\* the characters encodeURI leaves alone and encodeURIComponent escapes
UriReserved == {"&", "=", "?", "@", ":"}

RECURSIVE EscapeAll(_, _)
EscapeAll(str, keep) ==
  IF str = << >> THEN << >>
  ELSE (IF Head(str) \in DOMAIN Escapes /\ Head(str) \notin keep
          THEN Escapes[Head(str)] ELSE <<Head(str)>>) \o EscapeAll(Tail(str), keep)

\* encodeURI in the place of encodeURIComponent
encodeURI(str) ==
  [ threw |-> \E i \in DOMAIN str : str[i] = LoneSurrogate,
    out |-> EscapeAll(str, UriReserved) ]

\* encodeURIComponent: a URIError for a lone surrogate, else every character
\* outside the unreserved set escaped
encodeURIComponent(str) ==
  [ threw |-> \E i \in DOMAIN str : str[i] = LoneSurrogate,
    out |-> EscapeAll(str, {}) ]

\* the template literal of the body
BodyText(form) ==
  <<"N", "a", "m", "e", ":", " ">> \o form.name \o <<LineFeed>>
  \o <<"E", "m", "a", "i", "l", ":", " ">> \o form.email \o <<LineFeed, LineFeed>>
  \o <<"M", "e", "s", "s", "a", "g", "e", ":", LineFeed>> \o form.message

\* the try block of handleSubmit up to window.location.href = mailtoLink:
\* whether it threw, and the link
MailtoLink(form) ==
  LET subject == encodeURIComponent(form.subject)
      body == encodeURIComponent(BodyText(form))
  IN  [ threw |-> subject.threw \/ body.threw,
        link |-> <<"m", "a", "i", "l", "t", "o", ":">> \o ContactEmail
                 \o <<"?", "s", "u", "b", "j", "e", "c", "t", "=">> \o subject.out
                 \o <<"&", "b", "o", "d", "y", "=">> \o body.out ]

\* a toast that reports an error on both paths
SubmitToastAlwaysError(threw) == "error"

\* the toast of handleSubmit: the try block's, or the catch block's
SubmitToast(threw) == IF threw THEN "error" ELSE "opened"

\* the form can be submitted: every field is required
Submittable(form) ==
  /\ form.name # << >>
  /\ form.email # << >>
  /\ form.subject # << >>
  /\ form.message # << >>

\* a reset that does not wait
ResetTimerNoDelay(k) ==
  [kind |-> "resetForm", delay |-> 0, waited |-> 0, live |-> TRUE, change |-> k]

\* the timer of the reset of the form, set by the k-th call of handleSubmit
ResetTimer(k) ==
  [kind |-> "resetForm", delay |-> ResetDelayMs, waited |-> 0, live |-> TRUE, change |-> k]

(***************************************************************************)
(* MermaidDiagram: renderDiagram.                                          *)
(***************************************************************************)
\* the chart props of the runs explored
Charts == {"", "graph TD", "graph ??"}

\* the svg mermaid.render returns for a chart, and the error panel of the catch
Svg(c) == <<"svg", c>>
ErrorPanel(c) == <<"error-panel", c>>

\* the outcomes of mermaid.render: a chart it cannot parse makes it throw
RenderOutcomes(c) == IF c = "graph TD" THEN {"ok"} ELSE {"threw"}

\* a catch block that leaves the container as it is
RenderSettledSilently(html, r, outcome) ==
  IF ~r.live THEN html
  ELSE IF outcome = "ok" THEN Svg(r.chart) ELSE html

\* the container after mermaid.render settled for the render r: the svg, or
\* the error panel; nothing when elementRef.current is null
RenderSettled(html, r, outcome) ==
  IF ~r.live THEN html
  ELSE IF outcome = "ok" THEN Svg(r.chart) ELSE ErrorPanel(r.chart)

(***************************************************************************)
(* Index: the effect that sets the title and the structured data.          *)
(***************************************************************************)
\* JSON values: a string, an array of values, an object of members in the
\* order they were written
Str(s) == [t |-> "str", v |-> s]
Arr(items) == [t |-> "arr", v |-> items]
Obj(members) == [t |-> "obj", v |-> members]

\* CONTACT_INFO, the fields SEO_DATA uses besides the email
CONTACT_INFO ==
  [ name |-> "Aymane Nouhail",
    email |-> "Aymane.Nouhail@gmail.com",
    github |-> "https://github.com/aymane-nouhail",
    linkedin |-> "https://linkedin.com/in/aymane-nouhail" ]

\* SEO_DATA: the title and the structured data
SEO_DATA ==
  [ title |-> "Aymane Nouhail - Generative AI Data Scientist",
    structuredData |->
      Obj(<< <<"@context", Str("https://schema.org")>>,
             <<"@type", Str("Person")>>,
             <<"name", Str(CONTACT_INFO.name)>>,
             <<"jobTitle", Str("Generative AI Data Scientist")>>,
             <<"description", Str("AI-oriented Data Scientist specializing in RAG systems and agentic applications")>>,
             <<"email", Str(CONTACT_INFO.email)>>,
             <<"url", Str("https://aymane-nouhail.com")>>,
             <<"sameAs", Arr(<<Str(CONTACT_INFO.linkedin), Str(CONTACT_INFO.github)>>)>>,
             <<"address", Obj(<< <<"@type", Str("PostalAddress")>>,
                                 <<"addressLocality", Str("Paris")>>,
                                 <<"addressCountry", Str("France")>> >>)>>,
             <<"worksFor", Obj(<< <<"@type", Str("Organization")>>,
                                  <<"name", Str("Publicis Groupe")>> >>)>> >>) ]

\* JSON.stringify without indentation, as a sequence of tokens: the
\* punctuation, and every string between two quote tokens
RECURSIVE JSONStringify(_), StringifyItems(_), StringifyMembers(_)
JSONStringify(x) ==
  CASE x.t = "str" -> <<"\"", x.v, "\"">>
    [] x.t = "arr" -> <<"[">> \o StringifyItems(x.v) \o <<"]">>
    [] x.t = "obj" -> <<"{">> \o StringifyMembers(x.v) \o <<"}">>

StringifyItems(items) ==
  IF items = << >> THEN << >>
  ELSE JSONStringify(Head(items))
       \o (IF Len(items) > 1 THEN <<",">> ELSE << >>)
       \o StringifyItems(Tail(items))

StringifyMembers(members) ==
  IF members = << >> THEN << >>
  ELSE <<"\"", Head(members)[1], "\"", ":">> \o JSONStringify(Head(members)[2])
       \o (IF Len(members) > 1 THEN <<",">> ELSE << >>)
       \o StringifyMembers(Tail(members))

\* document.getElementById on the scripts of the head: the index of the first
\* element with the id, 0 for null
ScriptById(h, id) ==
  IF \E i \in DOMAIN h : h[i].id = id
    THEN CHOOSE i \in DOMAIN h : h[i].id = id /\ \A j \in 1..(i - 1) : h[j].id # id
    ELSE 0

\* an effect that appends a script on every mount
SeoEffectAlwaysAppends(t, h) ==
  [ title |-> SEO_DATA.title,
    head |-> Append(h, [id |-> "structured-data", type |-> "application/ld+json",
                        textContent |-> JSONStringify(SEO_DATA.structuredData)]) ]

\* the mount effect of Index on document.title and the head: the title is
\* set, the script is created if there is none, and its text is set
SeoEffect(t, h) ==
  LET found == ScriptById(h, "structured-data")
      withScript == IF found = 0
                      THEN Append(h, [id |-> "structured-data",
                                      type |-> "application/ld+json",
                                      textContent |-> << >>])
                      ELSE h
      at == IF found = 0 THEN Len(withScript) ELSE found
  IN  [ title |-> SEO_DATA.title,
        head |-> [withScript EXCEPT ![at].textContent =
                    JSONStringify(SEO_DATA.structuredData)] ]

(***************************************************************************)
(* The build and the resume of the navigation bar.  Paths are sequences of *)
(* segments.                                                               *)
(***************************************************************************)
\* the modes of vite
BuildModes == {"development", "production"}

\* base of the vite configuration
Base(m) == IF m = "production" THEN <<"aymane-nouhail-ai-profile">> ELSE << >>

\* the path at which a file of /public is served: the base, then its name
PublicPath(m, file) == Base(m) \o <<file>>

\* link.href of handleResumeDownload, resolved against the origin
ResumeLinkPath == <<"Aymane_Nouhail_Resume.pdf">>
(***************************************************************************)
(* BlogPost: the h1 component given to ReactMarkdown.                      *)
(***************************************************************************)
\* the children of a heading: text nodes, and elements such as an emphasis
\* with some text in it
TextNode(v) == [type |-> "text", value |-> v]
ElementNode == [type |-> "element"]

\* String(child): the text of a text node, "[object Object]" for an element
NodeToString(n) == IF n.type = "text" THEN n.value ELSE "[object Object]"

\* Array.prototype.toString: the children joined with ",", as the sequence of
\* the pieces of the string (no text explored holds a comma or is split)
RECURSIVE JoinChildren(_)
JoinChildren(children) ==
  IF children = << >> THEN << >>
  ELSE IF Len(children) = 1 THEN <<NodeToString(children[1])>>
  ELSE <<NodeToString(children[1]), ",">> \o JoinChildren(Tail(children))

\* children?.toString() || '': the string of the only child, the join of
\* several, '' for a heading without children
ChildrenToString(children) == JoinChildren(children)

\* the h1 component: null when the string of the children is the title of the
\* current post, the <h1> element otherwise
h1(children, postTitle) ==
  IF ChildrenToString(children) = <<postTitle>> THEN "null" ELSE "h1"

\* the h1 headings of a document after ReactMarkdown called the h1 component
\* on each of them, in document order
RenderedH1s(doc, postTitle) ==
  [i \in DOMAIN doc |-> [children |-> doc[i], rendered |-> h1(doc[i], postTitle) # "null"]]

\* no article is displayed
NoArticle == [title |-> "", h1s |-> << >>]

\* the headings explored for a post with the title t, and the documents made
\* of them
Headings(t) ==
  { <<TextNode(t)>>, <<TextNode("Introduction")>>, <<TextNode(t), ElementNode>>, << >> }
Docs(t) == UNION { [1..n -> Headings(t)] : n \in 0..MaxH1s }
(***************************************************************************)
(* The initial state: the application starts on the home page.             *)
(***************************************************************************)
Init ==
  /\ route = "home"
  /\ slug = ""
  /\ hash = NoHash
  /\ blogPosts = BLOG_POSTS
  /\ projects = PROJECTS
  /\ content = ""
  /\ loading = TRUE
  /\ error = ""
  /\ loads = << >>
  /\ requests = {}
  /\ ProjectsInit(activeFilters, activeCompanyFilter, showCompanyDropdown,
                  showTechFilters, showAllProjects)
  /\ isOpen = FALSE
  /\ activeSection = "home"
  /\ scrollY = 0
  /\ offsetTop = <<0, 80, 160, 240, 320>>
  /\ navLog = [id |-> "", page |-> "", navigated |-> << >>, scrolled |-> "", change |-> 0]
  /\ spyLog = [seen |-> FALSE, prev |-> ""]
  /\ timers = << >>
  /\ hashChanges = << >>
  /\ formData = EmptyForm
  /\ isSubmitting = FALSE
  /\ href = << >>
  /\ toast = "none"
  /\ submits = << >>
  /\ mounted = FALSE
  /\ chart = ""
  /\ innerHTML = << >>
  /\ renders = << >>
  /\ title = SeoEffect("", << >>).title
  /\ head = SeoEffect("", << >>).head
  /\ mode \in BuildModes
  /\ resumeHref = << >>
  /\ article = NoArticle

(***************************************************************************)
(* Route changes.                                                          *)
(***************************************************************************)
\* the components of the home page unmount: their state is gone, the timers
\* they set stay pending
HomeUnmounts ==
  /\ ProjectsInit(activeFilters', activeCompanyFilter', showCompanyDropdown',
                  showTechFilters', showAllProjects')
  /\ formData' = EmptyForm
  /\ isSubmitting' = FALSE
  /\ timers' = Detached(timers)
  /\ UNCHANGED hashChanges

\* a new Navigation mounts
NavigationMounts ==
  /\ isOpen' = FALSE
  /\ activeSection' = "home"
  /\ spyLog' = [seen |-> FALSE, prev |-> ""]

\* navigate to '/' with the hash h from a blog-post page: BlogPost unmounts,
\* Index mounts with its sections and runs its hash effect
EnterHome(h) ==
  /\ route' = "home"
  /\ slug' = ""
  /\ hash' = h
  /\ content' = ""
  /\ loading' = TRUE
  /\ error' = ""
  /\ loads' = Orphaned(loads)
  /\ ProjectsInit(activeFilters', activeCompanyFilter', showCompanyDropdown',
                  showTechFilters', showAllProjects')
  /\ formData' = EmptyForm
  /\ isSubmitting' = FALSE
  /\ hashChanges' = hashChanges \o HashEffectRun(h)
  /\ timers' = timers \o HashEffectTimer(h, Len(hashChanges) + 1)
  /\ blogPosts' = BlogSectionLists(blogPosts).self
  /\ projects' = filteredProjects(projects, FALSE, "All", <<"All">>).self
  /\ title' = SeoEffect(title, head).title
  /\ head' = SeoEffect(title, head).head
  /\ article' = NoArticle
  /\ UNCHANGED <<requests, windowVars, mailVars, mermaidVars, buildVars>>

(***************************************************************************)
(* BlogPost.                                                               *)
(***************************************************************************)
\* const currentPost = BLOG_POSTS.find(post => post.slug === slug), 0 for
\* undefined
currentPost == FindFrom(blogPosts, slug, 1)

\* a render that looks at error before it looks at loading
BlogPostViewErrorFirst ==
  IF currentPost = 0 THEN "notFound"
  ELSE IF error # "" THEN "error"
  ELSE IF loading THEN "spinner"
  ELSE "article"

\* a render that looks at loading before it looks at currentPost
BlogPostViewSpinnerFirst ==
  IF loading THEN "spinner"
  ELSE IF currentPost = 0 THEN "notFound"
  ELSE IF error # "" THEN "error"
  ELSE "article"

\* what BlogPost renders: the not-found view, or the post with the spinner,
\* the error message or the article in its article area
BlogPostView ==
  IF currentPost = 0 THEN "notFound"
  ELSE IF loading THEN "spinner"
  ELSE IF error # "" THEN "error"
  ELSE "article"

\* the route /blog/:slug is entered from the home page, or its slug changes:
\* BlogPost mounts with its initial state (or keeps its state on a slug
\* change) and the effect of [slug] calls loadBlogPost
OpenBlogPost(s) ==
  /\ Len(loads) < MaxLoads
  /\ s # ""
  /\ \/ /\ route = "home"
        /\ content' = ""
        /\ error' = ""
        /\ HomeUnmounts
        /\ NavigationMounts
     \/ /\ route = "blog"
        /\ s # slug
        /\ UNCHANGED <<content, error, projVars, formVars, timeVars, isOpen, activeSection,
                       spyLog>>
  /\ route' = "blog"
  /\ slug' = s
  /\ hash' = NoHash
  /\ loading' = TRUE
  /\ loads' = Append(loads, StartLoad(s))
  /\ requests' = requests \cup {[load |-> Len(loads) + 1, url |-> FetchUrl(s)]}
  /\ blogPosts' = PostsAfterBlogRender(blogPosts, s)
  /\ article' = NoArticle
  /\ UNCHANGED <<projects, navLog, windowVars, mailVars, mermaidVars,
                 title, head, buildVars>>

\* what a step of a call of loadBlogPost leaves alone
LoadStepFrame ==
  /\ blogPosts' = IF route = "blog" THEN PostsAfterBlogRender(blogPosts, slug)
                  ELSE blogPosts
  /\ UNCHANGED <<pageVars, projects, projVars, navVars, windowVars, timeVars,
                 formVars, mailVars, mermaidVars,
                 docVars, buildVars>>

FetchSettles(i, outcome) ==
  /\ loads[i].pc = "fetch"
  /\ loads' = [loads EXCEPT ![i] = FetchSettled(loads[i], outcome)]
  /\ requests' = requests \cup ImportRequests(i, loads[i], loads'[i])
  /\ UNCHANGED blogVars
  /\ LoadStepFrame

TextSettles(i, ok) ==
  LET l == loads[i] IN
  /\ l.pc = "text"
  /\ loads' = [loads EXCEPT ![i] = TextSettled(l, ok)]
  /\ requests' = requests \cup ImportRequests(i, l, loads'[i])
  /\ content' = IF ok THEN SetIfLive(l, content, ServedBody(l.slug)) ELSE content
  /\ loading' = IF ok THEN SetIfLive(l, loading, FALSE) ELSE loading
  /\ UNCHANGED error
  /\ LoadStepFrame

TryImportSettles(i, outcome) ==
  LET l == loads[i] IN
  /\ l.pc = "tryImport"
  /\ outcome \in ImportOutcomes(l.slug)
  /\ loads' = [loads EXCEPT ![i] = TryImportSettled(l, outcome)]
  /\ requests' = requests \cup ImportRequests(i, l, loads'[i])
  /\ content' = IF outcome = "ok" THEN SetIfLive(l, content, Markdown(l.slug)) ELSE content
  /\ loading' = IF outcome = "ok" THEN SetIfLive(l, loading, FALSE) ELSE loading
  /\ UNCHANGED error
  /\ LoadStepFrame

CatchImportSettles(i, outcome) ==
  LET l == loads[i] IN
  /\ l.pc = "catchImport"
  /\ outcome \in ImportOutcomes(l.slug)
  /\ loads' = [loads EXCEPT ![i] = CatchImportSettled(l, outcome)]
  /\ content' = IF outcome = "ok" THEN SetIfLive(l, content, Markdown(l.slug)) ELSE content
  /\ error' = IF outcome = "ok" THEN error ELSE SetIfLive(l, error, LoadFailedMessage)
  /\ loading' = SetIfLive(l, loading, FALSE)
  /\ UNCHANGED requests
  /\ LoadStepFrame

\* the documents explored for the current post
DocsOfCurrentPost ==
  IF currentPost = 0 THEN {} ELSE Docs(blogPosts[currentPost].title)

\* ReactMarkdown renders the content of the current post, whose h1 headings
\* are doc
ArticleRenders(doc) ==
  /\ route = "blog"
  /\ BlogPostView = "article"
  /\ article' = [title |-> blogPosts[currentPost].title,
                 h1s |-> RenderedH1s(doc, blogPosts[currentPost].title)]
  /\ blogPosts' = PostsAfterBlogRender(blogPosts, slug)
  /\ UNCHANGED <<pageVars, projects, blogVars, loadVars, projVars, navVars, windowVars,
                 timeVars, formVars, mailVars, mermaidVars, title, head, buildVars>>

\* <Link to="/#blog"> of BlogPost
BackToBlog ==
  /\ route = "blog"
  /\ EnterHome(HashOf("blog"))
  /\ NavigationMounts
  /\ UNCHANGED navLog

(***************************************************************************)
(* ProjectsSection: the handlers.  Every handler is followed by a render,  *)
(* which recomputes filteredProjects.                                      *)
(***************************************************************************)
ProjectsFrame ==
  /\ projects' = filteredProjects(projects, showAllProjects', activeCompanyFilter',
                                  activeFilters').self
  /\ UNCHANGED <<pageVars, blogPosts, blogVars, loadVars, navVars, windowVars,
                 timeVars, formVars, mailVars, mermaidVars,
                 docVars, buildVars>>

\* a technology filter button, shown while the filters are expanded
FilterButton(category) ==
  /\ route = "home"
  /\ showTechFilters
  /\ activeFilters' = handleFilterToggle(activeFilters, category)
  /\ UNCHANGED <<activeCompanyFilter, showCompanyDropdown, showTechFilters, showAllProjects>>
  /\ ProjectsFrame

\* the X of the badge of an active filter
FilterBadge(category) ==
  /\ route = "home"
  /\ ~Includes(activeFilters, "All")
  /\ Includes(activeFilters, category)
  /\ activeFilters' = handleFilterToggle(activeFilters, category)
  /\ UNCHANGED <<activeCompanyFilter, showCompanyDropdown, showTechFilters, showAllProjects>>
  /\ ProjectsFrame

\* "Clear all", shown while a filter is active
ClearAll ==
  /\ route = "home"
  /\ ~Includes(activeFilters, "All") \/ activeCompanyFilter # "All"
  /\ activeFilters' = <<"All">>
  /\ activeCompanyFilter' = "All"
  /\ UNCHANGED <<showCompanyDropdown, showTechFilters, showAllProjects>>
  /\ ProjectsFrame

\* the Technology Filters toggle
ToggleTechFilters ==
  /\ route = "home"
  /\ showTechFilters' = ~showTechFilters
  /\ UNCHANGED <<activeFilters, activeCompanyFilter, showCompanyDropdown, showAllProjects>>
  /\ ProjectsFrame

\* the button of the company dropdown
ToggleCompanyDropdown ==
  /\ route = "home"
  /\ showCompanyDropdown' = ~showCompanyDropdown
  /\ UNCHANGED <<activeFilters, activeCompanyFilter, showTechFilters, showAllProjects>>
  /\ ProjectsFrame

\* an entry of the open dropdown: handleCompanyFilterChange, then the dropdown
\* closes
SelectCompany(company) ==
  /\ route = "home"
  /\ showCompanyDropdown
  /\ activeCompanyFilter' = company
  /\ showCompanyDropdown' = FALSE
  /\ UNCHANGED <<activeFilters, showTechFilters, showAllProjects>>
  /\ ProjectsFrame

\* the X of the company badge: handleCompanyFilterChange('All')
CompanyBadge ==
  /\ route = "home"
  /\ activeCompanyFilter # "All"
  /\ activeCompanyFilter' = "All"
  /\ UNCHANGED <<activeFilters, showCompanyDropdown, showTechFilters, showAllProjects>>
  /\ ProjectsFrame

\* the Featured Projects and All Projects buttons
SetShowAllProjects(all) ==
  /\ route = "home"
  /\ showAllProjects' = all
  /\ UNCHANGED <<activeFilters, activeCompanyFilter, showCompanyDropdown, showTechFilters>>
  /\ ProjectsFrame

\* a mousedown on the document: handleClickOutside
MouseDown(inside) ==
  /\ route = "home"
  /\ showCompanyDropdown' = handleClickOutside(showCompanyDropdown, inside)
  /\ UNCHANGED <<activeFilters, activeCompanyFilter, showTechFilters, showAllProjects>>
  /\ ProjectsFrame

(***************************************************************************)
(* Navigation.                                                             *)
(***************************************************************************)
\* a scroll event of the window, at the position y with the layout lay
ScrollEvent(y, lay) ==
  /\ scrollY' = y
  /\ offsetTop' = IF route = "home" THEN lay ELSE offsetTop
  /\ activeSection' = handleScroll(activeSection, route, y, offsetTop')
  /\ spyLog' = IF route = "home" THEN [seen |-> TRUE, prev |-> activeSection] ELSE spyLog
  /\ UNCHANGED <<pageVars, dataVars, blogVars, loadVars, projVars, isOpen, navLog,
                 timeVars, formVars, mailVars, mermaidVars,
                 docVars, buildVars>>

\* a click on the navigation item id: handleScrollToSection, and the route
\* change when it navigates
NavItemClick(id) ==
  LET call == handleScrollToSection(route = "blog", id) IN
  /\ navLog' = [id |-> id, page |-> route, navigated |-> call.navigated,
                scrolled |-> call.scrolled,
                change |-> IF call.navigated # << >> THEN Len(hashChanges) + 1 ELSE 0]
  /\ isOpen' = call.isOpen
  /\ IF call.navigated # << >>
       THEN /\ EnterHome(Tail(call.navigated))
            /\ activeSection' = "home"
            /\ spyLog' = [seen |-> FALSE, prev |-> ""]
       ELSE UNCHANGED <<pageVars, dataVars, blogVars, loadVars, projVars, activeSection,
                        spyLog, windowVars, timeVars, formVars, mailVars, mermaidVars,
                        docVars, buildVars>>

\* the logo: navigate('/') on a blog-post page, handleScrollToSection('home')
\* on the home page
LogoClick ==
  \/ /\ route = "blog"
     /\ EnterHome(NoHash)
     /\ NavigationMounts
     /\ navLog' = [id |-> "logo", page |-> "blog", navigated |-> <<"/">>, scrolled |-> "",
                   change |-> 0]
  \/ /\ route = "home"
     /\ navLog' = [id |-> "logo", page |-> "home", navigated |-> << >>, scrolled |-> "home",
                   change |-> 0]
     /\ isOpen' = FALSE
     /\ UNCHANGED <<pageVars, dataVars, blogVars, loadVars, projVars, activeSection,
                    spyLog, windowVars, timeVars, formVars, mailVars, mermaidVars,
                 docVars, buildVars>>

\* the history of the browser leads from a blog-post page to '/#<id>'
HistoryToHome(id) ==
  /\ route = "blog"
  /\ EnterHome(HashOf(id))
  /\ NavigationMounts
  /\ UNCHANGED navLog

\* the Resume button: handleResumeDownload clicks a link it creates
ResumeDownload ==
  /\ resumeHref' = ResumeLinkPath
  /\ UNCHANGED <<pageVars, dataVars, blogVars, loadVars, projVars, navVars, windowVars,
                 timeVars, formVars, mailVars, mermaidVars, docVars, mode>>

\* the mobile menu button
ToggleMenu ==
  /\ isOpen' = ~isOpen
  /\ UNCHANGED <<pageVars, dataVars, blogVars, loadVars, projVars, activeSection, navLog,
                 spyLog, windowVars, timeVars, formVars, mailVars, mermaidVars,
                 docVars, buildVars>>

(***************************************************************************)
(* Timers.                                                                 *)
(***************************************************************************)
\* time passes while a timer has not waited its delay
Tick ==
  /\ \E k \in DOMAIN timers : timers[k].waited < timers[k].delay
  /\ timers' = [k \in DOMAIN timers |-> [timers[k] EXCEPT !.waited = @ + TickMs]]
  /\ UNCHANGED <<pageVars, dataVars, blogVars, loadVars, projVars, navVars, windowVars,
                 hashChanges, formVars, mailVars, mermaidVars,
                 docVars, buildVars>>

\* the callback of a timer that has waited its delay runs
TimerFires(k) ==
  LET t == timers[k] IN
  /\ t.waited >= t.delay
  /\ timers' = Without(timers, k)
  /\ IF t.kind = "scrollIntoView"
       THEN /\ hashChanges' = [hashChanges EXCEPT ![t.change] =
                                 [@ EXCEPT !.calls = @ + 1, !.waited = t.waited]]
            /\ UNCHANGED <<formData, submits>>
       ELSE /\ formData' = IF t.live THEN EmptyForm ELSE formData
            /\ submits' = [submits EXCEPT ![t.change] =
                             [@ EXCEPT !.reset = "done", !.resetWaited = t.waited,
                                       !.clearedAtReset = (formData' = EmptyForm)]]
            /\ UNCHANGED hashChanges
  /\ UNCHANGED <<pageVars, dataVars, blogVars, loadVars, projVars, navVars, windowVars,
                 isSubmitting, href, toast, mermaidVars,
                 docVars, buildVars>>

(***************************************************************************)
(* ContactSection.                                                         *)
(***************************************************************************)
\* handleInputChange: the field takes the value typed
InputChange(field, value) ==
  /\ route = "home"
  /\ formData[field] # value
  /\ formData' = [formData EXCEPT ![field] = value]
  /\ UNCHANGED <<pageVars, dataVars, blogVars, loadVars, projVars, navVars, windowVars,
                 timeVars, isSubmitting, mailVars, mermaidVars,
                 docVars, buildVars>>

\* handleSubmit, from setIsSubmitting(true) to the finally block: it has no
\* await, so it runs in one step
Submit ==
  LET m == MailtoLink(formData) IN
  /\ route = "home"
  /\ Submittable(formData)
  /\ Len(submits) < MaxSubmits
  /\ UNCHANGED <<pageVars, dataVars, blogVars, loadVars, projVars, navVars, windowVars,
                 hashChanges, formData, mermaidVars,
                 docVars, buildVars>>
  /\ href' = IF m.threw THEN href ELSE m.link
  /\ toast' = SubmitToast(m.threw)
  /\ timers' = IF m.threw THEN timers ELSE Append(timers, ResetTimer(Len(submits) + 1))
  /\ isSubmitting' = FALSE
  /\ submits' = Append(submits, [form |-> formData, threw |-> m.threw,
                                 set |-> IF m.threw THEN << >> ELSE m.link,
                                 requested |-> requests' \ requests,
                                 formAfter |-> formData',
                                 isSubmittingAfter |-> isSubmitting',
                                 toast |-> toast',
                                 reset |-> IF m.threw THEN "none" ELSE "pending",
                                 resetWaited |-> 0,
                                 clearedAtReset |-> FALSE])


(***************************************************************************)
(* MermaidDiagram.                                                         *)
(***************************************************************************)
\* an effect that calls mermaid.render over the previous content
RenderStartsWithoutClearing(c) ==
  IF c # ""
    THEN /\ innerHTML' = innerHTML
         /\ renders' = Append(renders, [chart |-> c, live |-> TRUE, pc |-> "render",
                                        outcome |-> "pending", html |-> << >>,
                                        before |-> innerHTML, atStart |-> innerHTML'])
    ELSE /\ innerHTML' = innerHTML
         /\ renders' = Append(renders, [chart |-> c, live |-> TRUE, pc |-> "skipped",
                                        outcome |-> "none", html |-> << >>,
                                        before |-> innerHTML, atStart |-> innerHTML'])

\* the effect of [chart]: renderDiagram up to its await. With a chart that is
\* not empty the container is cleared and mermaid.render is called; with an
\* empty chart the body of renderDiagram is skipped
RenderStarts(c) ==
  IF c # ""
    THEN /\ innerHTML' = << >>
         /\ renders' = Append(renders, [chart |-> c, live |-> TRUE, pc |-> "render",
                                        outcome |-> "pending", html |-> << >>,
                                        before |-> innerHTML, atStart |-> innerHTML'])
    ELSE /\ innerHTML' = innerHTML
         /\ renders' = Append(renders, [chart |-> c, live |-> TRUE, pc |-> "skipped",
                                        outcome |-> "none", html |-> << >>,
                                        before |-> innerHTML, atStart |-> innerHTML'])

MermaidFrame ==
  UNCHANGED <<pageVars, dataVars, blogVars, loadVars, projVars, navVars, windowVars,
              timeVars, formVars, mailVars, docVars, buildVars>>

\* a diagram mounts with the chart c
DiagramMounts(c) ==
  /\ ~mounted
  /\ Len(renders) < MaxRenders
  /\ mounted' = TRUE
  /\ chart' = c
  /\ RenderStarts(c)
  /\ MermaidFrame

\* the chart prop changes
ChartChanges(c) ==
  /\ mounted
  /\ c # chart
  /\ Len(renders) < MaxRenders
  /\ chart' = c
  /\ RenderStarts(c)
  /\ UNCHANGED mounted
  /\ MermaidFrame

\* the diagram unmounts: elementRef.current is null from now on
DiagramUnmounts ==
  /\ mounted
  /\ mounted' = FALSE
  /\ chart' = ""
  /\ innerHTML' = << >>
  /\ renders' = [k \in DOMAIN renders |-> [renders[k] EXCEPT !.live = FALSE]]
  /\ MermaidFrame

\* await mermaid.render(id, chart) settles
RenderSettles(k, outcome) ==
  /\ renders[k].pc = "render"
  /\ outcome \in RenderOutcomes(renders[k].chart)
  /\ innerHTML' = RenderSettled(innerHTML, renders[k], outcome)
  /\ renders' = [renders EXCEPT ![k] = [@ EXCEPT !.pc = "done", !.outcome = outcome,
                                                  !.html = innerHTML']]
  /\ UNCHANGED <<mounted, chart>>
  /\ MermaidFrame

(***************************************************************************)
(* The specifications: one for each part of the site.                      *)
(***************************************************************************)
NextBlog ==
  \/ \E s \in UrlSlugs : OpenBlogPost(s)
  \/ \E i \in DOMAIN loads, o \in {"ok", "notOk", "rejected"} : FetchSettles(i, o)
  \/ \E i \in DOMAIN loads, ok \in BOOLEAN : TextSettles(i, ok)
  \/ \E i \in DOMAIN loads, o \in {"ok", "failed"} : TryImportSettles(i, o)
  \/ \E i \in DOMAIN loads, o \in {"ok", "failed"} : CatchImportSettles(i, o)
  \/ BackToBlog

NextProjects ==
  \/ \E c \in ClickedCategories : FilterButton(c)
  \/ \E c \in ClickedCategories : FilterBadge(c)
  \/ ClearAll
  \/ ToggleTechFilters
  \/ ToggleCompanyDropdown
  \/ \E c \in companyFilters : SelectCompany(c)
  \/ CompanyBadge
  \/ \E all \in BOOLEAN : SetShowAllProjects(all)
  \/ \E inside \in BOOLEAN : MouseDown(inside)

NextScrollSpy ==
  \/ \E s \in UrlSlugs : OpenBlogPost(s)
  \/ \E y \in ScrollYs, lay \in Layouts : ScrollEvent(y, lay)
  \/ BackToBlog

NextNavigation ==
  \/ \E s \in UrlSlugs : OpenBlogPost(s)
  \/ \E id \in DOMAIN NAV_ITEMS : NavItemClick(NAV_ITEMS[id])
  \/ LogoClick
  \/ \E id \in HistoryIds : HistoryToHome(id)
  \/ ToggleMenu
  \/ BackToBlog
  \/ Tick
  \/ \E k \in DOMAIN timers : TimerFires(k)

NextContact ==
  \/ \E f \in DOMAIN FieldValues : \E v \in FieldValues[f] : InputChange(f, v)
  \/ Submit
  \/ Tick
  \/ \E k \in DOMAIN timers : TimerFires(k)

NextMermaid ==
  \/ \E c \in Charts : DiagramMounts(c)
  \/ \E c \in Charts : ChartChanges(c)
  \/ DiagramUnmounts
  \/ \E k \in DOMAIN renders, o \in {"ok", "threw"} : RenderSettles(k, o)

\* the blog-post page and its loader
SpecBlog == Init /\ [][NextBlog]_vars
\* the filters of ProjectsSection
SpecProjects == Init /\ [][NextProjects]_vars
\* the scroll tracking of the navigation bar
SpecScrollSpy == Init /\ [][NextScrollSpy]_vars
\* the navigation bar, the route changes and the timers; the browser runs a
\* timer that is due and its clock advances
SpecNavigation ==
  Init /\ [][NextNavigation]_vars /\ WF_vars(Tick) /\ WF_vars(\E k \in DOMAIN timers : TimerFires(k))
\* the contact form
SpecContact ==
  /\ Init /\ [][NextContact]_vars
  /\ WF_vars(Tick)
  /\ WF_vars(\E k \in DOMAIN timers : TimerFires(k))
\* the diagram component
SpecMermaid == Init /\ [][NextMermaid]_vars

\* the renders that derive lists from the static records: the filters of the
\* projects section, the blog section of the home page, and the blog-post page
\* with its "More Articles", while the server answers every fetch
NextSite ==
  \/ NextProjects
  \/ \E s \in UrlSlugs : OpenBlogPost(s)
  \/ \E i \in DOMAIN loads : FetchSettles(i, "ok")
  \/ \E i \in DOMAIN loads : TextSettles(i, TRUE)
  \/ BackToBlog

SpecSite == Init /\ [][NextSite]_vars

\* the buttons of the navigation bar on the two pages, in either build
NextResume ==
  \/ ResumeDownload
  \/ \E id \in DOMAIN NAV_ITEMS : NavItemClick(NAV_ITEMS[id])
  \/ LogoClick
  \/ ToggleMenu
  \/ \E s \in UrlSlugs : OpenBlogPost(s)

SpecResume == Init /\ [][NextResume]_vars

\* the article of a blog post whose markdown the server delivers
NextArticle ==
  \/ \E s \in UrlSlugs : OpenBlogPost(s)
  \/ \E i \in DOMAIN loads : FetchSettles(i, "ok")
  \/ \E i \in DOMAIN loads : TextSettles(i, TRUE)
  \/ \E doc \in DocsOfCurrentPost : ArticleRenders(doc)
  \/ BackToBlog

SpecArticle == Init /\ [][NextArticle]_vars

(***************************************************************************)
(* The properties.                                                         *)
(***************************************************************************)
\* the slugs of the entries of BLOG_POSTS
PostSlugs == { BLOG_POSTS[i].slug : i \in DOMAIN BLOG_POSTS }

\* C1: in every load whose fetch failed (rejected or not OK) a dynamic import
\* of the slug is attempted; when the load has ended and that import succeeded
\* the load has set content and no error, and when that import failed the load
\* has set the error message and no content.
C1_FallbackImportDecides ==
  \A i \in DOMAIN loads :
    LET l == loads[i] IN
    l.fetched \in {"rejected", "notOk"} =>
      /\ l.pc = "done" => l.imports >= 1
      /\ (l.pc = "done" /\ l.imported[1] = "ok") =>
           (l.calledSetContent /\ ~l.calledSetError)
      /\ (l.pc = "done" /\ l.imported[1] = "failed") =>
           (l.calledSetError /\ ~l.calledSetContent)

\* C2: a load issues its fetch at most once and attempts the dynamic import at
\* most once.
C2_NoRetries ==
  \A i \in DOMAIN loads : loads[i].fetches <= 1 /\ loads[i].imports <= 1

\* C3: on the blog-post page, the not-found view is rendered whenever the slug
\* matches no entry of BLOG_POSTS, whatever loading, error and content are,
\* and never when the slug matches an entry.
C3_NotFoundIffNoPost ==
  route = "blog" =>
    /\ slug \notin PostSlugs => BlogPostView = "notFound"
    /\ slug \in PostSlugs => BlogPostView # "notFound"

\* the not-found view after the load for a slug without an entry has failed
C3_Witness ==
  /\ route = "blog"
  /\ slug \notin PostSlugs
  /\ ~loading
  /\ error = LoadFailedMessage
  /\ BlogPostView = "notFound"

\* C4: with exactly one technology filter X other than 'All' active, every
\* displayed project has X in its categories; with several active, every
\* displayed project has at least one category among the active filters.
C4_DisplayedMatchFilters ==
  (route = "home" /\ ~Includes(activeFilters, "All")) =>
    /\ Len(activeFilters) = 1 =>
         \A i \in DOMAIN Displayed :
           Includes(Displayed[i].categories, activeFilters[1])
    /\ Len(activeFilters) > 1 =>
         \A i \in DOMAIN Displayed :
           \E j \in DOMAIN activeFilters :
             Includes(Displayed[i].categories, activeFilters[j])

\* several filters active after a sequence of clicks, with projects displayed
\* and projects of the same company and featured setting filtered out
C4_Witness ==
  /\ route = "home"
  /\ Len(activeFilters) > 1
  /\ ~Includes(activeFilters, "All")
  /\ Len(Displayed) > 0
  /\ Len(Displayed) < Len(FeaturedAndCompany(projects, showAllProjects, activeCompanyFilter))

\* the sections of NAV_ITEMS that exist in the document and whose offsetTop
\* does not exceed scrollY + 100
Qualifying ==
  { i \in DOMAIN NAV_ITEMS :
      /\ ElementExists(route, NAV_ITEMS[i])
      /\ offsetTop[i] <= scrollY + 100 }

\* C5: on the home page, after a scroll event activeSection is the qualifying
\* section with the greatest offsetTop, and the value it had before the event
\* if no section qualifies.
C5_ActiveIsNearest ==
  (route = "home" /\ spyLog.seen) =>
    IF Qualifying = {}
      THEN activeSection = spyLog.prev
      ELSE \E i \in Qualifying :
             /\ \A j \in Qualifying : offsetTop[j] <= offsetTop[i]
             /\ activeSection = NAV_ITEMS[i]

\* after a scroll event several sections qualify and the nearest is neither
\* the first nor the last
C5_Witness ==
  /\ route = "home"
  /\ spyLog.seen
  /\ Cardinality(Qualifying) >= 3
  /\ activeSection \notin {"home", "contact"}
  /\ spyLog.prev # activeSection

(***************************************************************************)
(* Reading a mailto URL back: what a mail client makes of it.              *)
(***************************************************************************)
\* the sequence str starts with the sequence prefix
StartsWith(str, prefix) ==
  /\ Len(str) >= Len(prefix)
  /\ SubSeq(str, 1, Len(prefix)) = prefix

\* the position of the first ch in str, 0 if there is none
IndexOf(str, ch) ==
  IF \E i \in DOMAIN str : str[i] = ch
    THEN CHOOSE i \in DOMAIN str : str[i] = ch /\ \A j \in 1..(i - 1) : str[j] # ch
    ELSE 0

\* the pieces of str between the occurrences of ch
RECURSIVE SplitOn(_, _)
SplitOn(str, ch) ==
  LET at == IndexOf(str, ch)
  IN  IF at = 0 THEN <<str>>
      ELSE <<SubSeq(str, 1, at - 1)>> \o SplitOn(SubSeq(str, at + 1, Len(str)), ch)

\* percent-decoding: every escape becomes its character again; a percent sign
\* that starts no escape stays
RECURSIVE PercentDecode(_)
PercentDecode(str) ==
  IF str = << >> THEN << >>
  ELSE IF Head(str) = "%" /\ \E c \in DOMAIN Escapes : StartsWith(str, Escapes[c])
    THEN LET c == CHOOSE x \in DOMAIN Escapes : StartsWith(str, Escapes[x])
         IN  <<c>> \o PercentDecode(SubSeq(str, Len(Escapes[c]) + 1, Len(str)))
    ELSE <<Head(str)>> \o PercentDecode(Tail(str))

\* the parts of a mailto URL: the address, and the header fields of its query
\* in their order, each a name and a decoded value
ParseMailto(url) ==
  LET scheme == <<"m", "a", "i", "l", "t", "o", ":">>
      rest == SubSeq(url, Len(scheme) + 1, Len(url))
      q == IndexOf(rest, "?")
      query == IF q = 0 THEN << >> ELSE SplitOn(SubSeq(rest, q + 1, Len(rest)), "&")
      Field(f) == LET eq == IndexOf(f, "=")
                  IN  IF eq = 0 THEN [name |-> f, value |-> << >>]
                      ELSE [name |-> SubSeq(f, 1, eq - 1),
                            value |-> PercentDecode(SubSeq(f, eq + 1, Len(f)))]
  IN  [ ok |-> StartsWith(url, scheme),
        to |-> IF q = 0 THEN rest ELSE SubSeq(rest, 1, q - 1),
        fields |-> [i \in DOMAIN query |-> Field(query[i])] ]

\* the mailto URL the form asks for: the address of CONTACT_INFO, the subject,
\* and the body with the name, the email and the message
MailFor(form) ==
  [ ok |-> TRUE,
    to |-> ContactEmail,
    fields |-> << [name |-> <<"s", "u", "b", "j", "e", "c", "t">>, value |-> form.subject],
                  [name |-> <<"b", "o", "d", "y">>, value |-> BodyText(form)] >> ]

\* no field of the form holds a lone surrogate
WellFormed(form) ==
  \A f \in DOMAIN form : \A i \in DOMAIN form[f] : form[f][i] # LoneSurrogate

\* C6, as stated: every submission requests nothing from the network and sets
\* window.location.href to the mailto URL of the fields it was submitted with.
C6_EverySubmitSetsMailto ==
  \A k \in DOMAIN submits :
    /\ submits[k].requested = {}
    /\ ParseMailto(submits[k].set) = MailFor(submits[k].form)

\* C6, amended: every submission requests nothing from the network; when its
\* fields are well-formed strings it sets window.location.href to the mailto
\* URL of the fields it was submitted with, and when a field holds a lone
\* surrogate it leaves window.location.href alone and shows the error toast.
C6_WellFormedSubmitSetsMailto ==
  /\ \A k \in DOMAIN submits :
       /\ submits[k].requested = {}
       /\ WellFormed(submits[k].form) =>
            ParseMailto(submits[k].set) = MailFor(submits[k].form)
       /\ ~WellFormed(submits[k].form) => submits[k].set = << >>
  /\ submits # << >> =>
       LET last == submits[Len(submits)]
       IN  IF WellFormed(last.form)
             THEN href = last.set /\ toast = "opened"
             ELSE toast = "error"

\* a submission with reserved characters in the subject and a line feed in the
\* message, after the fields have been edited again
C6_Witness ==
  /\ submits # << >>
  /\ LET last == submits[Len(submits)]
     IN  /\ IndexOf(last.form.subject, "&") # 0
         /\ IndexOf(last.form.message, LineFeed) # 0
         /\ href = last.set
         /\ ParseMailto(href) = MailFor(last.form)
         /\ formData # last.form

\* the timers pending that call scrollIntoView for the k-th hash change
PendingScrolls(k) ==
  { t \in DOMAIN timers : timers[t].kind = "scrollIntoView" /\ timers[t].change = k }

\* the hash effect ran for the k-th time and scheduled a scroll
Scheduled(k) == k \in DOMAIN hashChanges /\ hashChanges[k].scheduled

\* the scroll of the k-th hash change has been called
Scrolled(k) == k \in DOMAIN hashChanges /\ hashChanges[k].calls = 1

\* C7: a click on the navigation item s on a blog-post page navigates to
\* '/#s', and the home page runs its hash effect for s; a run of the hash
\* effect schedules a scroll exactly when an element with the id exists;
\* scrollIntoView is called at most once for a hash change, and only after
\* 100 ms; and a scroll that is scheduled is eventually called.
C7_AnchorNavigationCompletes ==
  /\ [](
       /\ (navLog.page = "blog" /\ navLog.id # "logo") =>
            /\ navLog.navigated = <<"/", "#", navLog.id>>
            /\ navLog.change \in DOMAIN hashChanges
            /\ hashChanges[navLog.change].id = navLog.id
            /\ hashChanges[navLog.change].scheduled
       /\ \A k \in DOMAIN hashChanges :
            LET h == hashChanges[k] IN
            /\ h.scheduled <=> h.id \in HomeElementIds
            /\ h.calls <= 1
            /\ h.calls = 1 => h.waited >= 100
            /\ Cardinality(PendingScrolls(k)) = (IF h.scheduled /\ h.calls = 0 THEN 1 ELSE 0)
            /\ \A t \in PendingScrolls(k) : timers[t].delay = 100 )
  /\ \A k \in 1..(MaxLoads + 1) : Scheduled(k) ~> Scrolled(k)

\* the scroll for the hash of a navigation item clicked on a blog-post page has
\* been called, after a hash change for which no element exists scheduled none
C7_Witness ==
  /\ navLog.page = "blog"
  /\ navLog.id = "projects"
  /\ route = "home"
  /\ hash = HashOf("projects")
  /\ hashChanges[navLog.change].calls = 1
  /\ \E k \in DOMAIN hashChanges :
       /\ hashChanges[k].id \notin HomeElementIds
       /\ ~hashChanges[k].scheduled

\* C8, as stated: the import of a load is started only after its fetch was
\* rejected or returned a response that is not OK, and the fetch and the
\* import of a load are never in flight together.
C8_ImportOnlyAfterFetchFailed ==
  \A i \in DOMAIN loads :
    LET l == loads[i] IN
    /\ l.imports >= 1 => l.fetched \in {"rejected", "notOk"}
    /\ ~(l.fetchInFlight /\ l.importInFlight)

\* C8, amended: the import of a load is started only after its fetch has
\* settled: rejected, returned a response that is not OK, or returned an OK
\* response whose body could not be read; and the fetch and the import of a
\* load are never in flight together.
C8_ImportAfterFetchSettled ==
  \A i \in DOMAIN loads :
    LET l == loads[i] IN
    /\ l.imports >= 1 =>
         \/ l.fetched \in {"rejected", "notOk"}
         \/ l.fetched = "ok" /\ l.body = "failed"
    /\ ~(l.fetchInFlight /\ l.importInFlight)

\* an import in flight after an OK response whose body could not be read
C8_Witness ==
  \E i \in DOMAIN loads :
    /\ loads[i].importInFlight
    /\ ~loads[i].fetchInFlight
    /\ loads[i].fetched = "ok"
    /\ loads[i].body = "failed"

C10_StaticRecordsUnchanged ==
  /\ blogPosts = BLOG_POSTS
  /\ projects = PROJECTS

\* back on the home page with a filtered list displayed, after a blog-post page
\* showed its article and its "More Articles"
C10_Witness ==
  /\ route = "home"
  /\ Len(Displayed) < Len(projects)
  /\ ~Includes(activeFilters, "All")
  /\ activeCompanyFilter # "All"
  /\ \E i \in DOMAIN loads : loads[i].pc = "done" /\ loads[i].calledSetContent
  /\ blogPosts = BLOG_POSTS

\* the name of the file a requested URL or import specifier points to: what
\* follows its last slash, without the query
FileNameOf(url) ==
  IF url[3] = ".md?raw" THEN <<url[2], ".md">> ELSE <<url[2], url[3]>>

\* C11: the slugs of BLOG_POSTS are distinct, each has exactly one markdown
\* file <slug>.md, and every request of a load for the slug s, the fetch and
\* the imports, is for the file s.md under data/blog-posts.
C11_OneFilePerSlug ==
  /\ \A i, j \in DOMAIN BLOG_POSTS :
       BLOG_POSTS[i].slug = BLOG_POSTS[j].slug => i = j
  /\ \A i \in DOMAIN BLOG_POSTS :
       Cardinality({f \in MdFiles : <<f, ".md">> = <<BLOG_POSTS[i].slug, ".md">>}) = 1
  /\ \A r \in requests :
       /\ r.load \in DOMAIN loads
       /\ FileNameOf(r.url) = <<loads[r.load].slug, ".md">>
       /\ r.url[1] \in {"/src/data/blog-posts/", "../data/blog-posts/"}
  /\ \A i \in DOMAIN loads :
       /\ \E r \in requests : r.load = i /\ r.url[1] = "/src/data/blog-posts/"
       /\ loads[i].imports >= 1 =>
            \E r \in requests : r.load = i /\ r.url[1] = "../data/blog-posts/"

\* two loads of different posts, the second with its fetch and a fallback
\* import requested
C11_Witness ==
  /\ Len(loads) = 2
  /\ loads[1].slug # loads[2].slug
  /\ loads[2].slug \in PostSlugs
  /\ loads[2].imports >= 1
  /\ Cardinality({r \in requests : r.load = 2}) = 2

\* C12: in every build mode, the path the Resume button requests is the path
\* at which the file Aymane_Nouhail_Resume.pdf of /public is served: the base
\* path followed by the file name.
C12_ResumeRequestsServedFile ==
  resumeHref # << >> =>
    resumeHref = (IF mode = "production" THEN <<"aymane-nouhail-ai-profile">> ELSE << >>)
                 \o <<"Aymane_Nouhail_Resume.pdf">>

\* the three conditions of the filters on a project, in the current state
Shown(p) ==
  /\ showAllProjects \/ p.featured
  /\ \/ activeCompanyFilter = "All"
     \/ activeCompanyFilter = p.company
     \/ /\ activeCompanyFilter = "Personal/Freelance"
        /\ p.company \in {"Personal Project", "Freelance Client"}
  /\ \/ \E i \in DOMAIN activeFilters : activeFilters[i] = "All"
     \/ \E i \in DOMAIN p.categories, j \in DOMAIN activeFilters :
          p.categories[i] = activeFilters[j]

\* C13: the list displayed is, in the order of the array, exactly the
\* projects that satisfy the three conditions on the current state.
C13_DisplayedIsSelection ==
  route = "home" => Displayed = SelectSeq(PROJECTS, Shown)

\* all projects asked for, personal and freelance work selected and a
\* technology filter active: projects of both kinds are displayed
C13_Witness ==
  /\ route = "home"
  /\ showAllProjects
  /\ activeCompanyFilter = "Personal/Freelance"
  /\ ~Includes(activeFilters, "All")
  /\ \E i, j \in DOMAIN Displayed :
       /\ Displayed[i].company = "Personal Project"
       /\ Displayed[j].company = "Freelance Client"
  /\ Len(Displayed) < Len(SelectSeq(PROJECTS, LAMBDA p :
                            p.company \in {"Personal Project", "Freelance Client"}))

\* C14: on a blog-post page reached from the home page, document.title no
\* longer holds the title of the home page.
C14_TitleResetOnNavigation ==
  route = "blog" => title # "Aymane Nouhail - Generative AI Data Scientist"

\* the tokens of a JSON member name with its colon, and of a JSON string
JsonName(k) == <<"\"", k, "\"", ":">>
JsonString(s) == <<"\"", s, "\"">>

\* the text JSON.stringify gives for SEO_DATA.structuredData, written out
StructuredDataJson ==
  <<"{">>
  \o JsonName("@context") \o JsonString("https://schema.org") \o <<",">>
  \o JsonName("@type") \o JsonString("Person") \o <<",">>
  \o JsonName("name") \o JsonString("Aymane Nouhail") \o <<",">>
  \o JsonName("jobTitle") \o JsonString("Generative AI Data Scientist") \o <<",">>
  \o JsonName("description")
  \o JsonString("AI-oriented Data Scientist specializing in RAG systems and agentic applications")
  \o <<",">>
  \o JsonName("email") \o JsonString("Aymane.Nouhail@gmail.com") \o <<",">>
  \o JsonName("url") \o JsonString("https://aymane-nouhail.com") \o <<",">>
  \o JsonName("sameAs") \o <<"[">>
       \o JsonString("https://linkedin.com/in/aymane-nouhail") \o <<",">>
       \o JsonString("https://github.com/aymane-nouhail") \o <<"]", ",">>
  \o JsonName("address") \o <<"{">>
       \o JsonName("@type") \o JsonString("PostalAddress") \o <<",">>
       \o JsonName("addressLocality") \o JsonString("Paris") \o <<",">>
       \o JsonName("addressCountry") \o JsonString("France") \o <<"}", ",">>
  \o JsonName("worksFor") \o <<"{">>
       \o JsonName("@type") \o JsonString("Organization") \o <<",">>
       \o JsonName("name") \o JsonString("Publicis Groupe") \o <<"}">>
  \o <<"}">>

\* C15: after any number of mounts of the home page the head holds exactly
\* one element with the id 'structured-data', and its text is the JSON
\* serialization of SEO_DATA.structuredData.
C15_OneStructuredDataScript ==
  /\ Cardinality({i \in DOMAIN head : head[i].id = "structured-data"}) = 1
  /\ \A i \in DOMAIN head :
       head[i].id = "structured-data" => head[i].textContent = StructuredDataJson

\* the home page has mounted for the third time, after two blog posts
C15_Witness ==
  /\ route = "home"
  /\ Len(loads) = 2
  /\ Len(hashChanges) = 2
  /\ \E i \in DOMAIN head : head[i].id = "structured-data"

\* C16: a scroll event on a blog-post page leaves activeSection as it is,
\* whatever the scroll position.
C16_NoTrackingOnBlogPage ==
  [][ (route = "blog" /\ \E y \in ScrollYs, lay \in Layouts : ScrollEvent(y, lay))
        => activeSection' = activeSection ]_vars

\* a blog-post page scrolled to a position below the offsets of all the
\* sections of the home page
C16_Witness ==
  /\ route = "blog"
  /\ scrollY = 500
  /\ \A i \in DOMAIN offsetTop : offsetTop[i] <= scrollY + 100
  /\ activeSection = "home"

\* C17: a click on the navigation item s on a blog-post page navigates to
\* '/#s' and does not scroll; on the home page it calls scrollToSection(s) and
\* does not navigate; either way the menu is closed afterwards.
C17_ClickNavigatesOrScrolls ==
  [][ \A i \in DOMAIN NAV_ITEMS :
        NavItemClick(NAV_ITEMS[i]) =>
          /\ isOpen' = FALSE
          /\ route = "blog" =>
               /\ navLog'.navigated = <<"/", "#", NAV_ITEMS[i]>>
               /\ navLog'.scrolled = ""
               /\ route' = "home"
               /\ hash' = <<"#", NAV_ITEMS[i]>>
          /\ route = "home" =>
               /\ navLog'.scrolled = NAV_ITEMS[i]
               /\ navLog'.navigated = << >>
               /\ route' = "home"
               /\ hash' = hash ]_vars

\* a click on the item of the projects section on the home page, back from a
\* blog-post page that a click on the item of the contact section had left
C17_Witness ==
  /\ navLog.page = "home"
  /\ navLog.scrolled = "projects"
  /\ navLog.navigated = << >>
  /\ hash = <<"#", "contact">>
  /\ route = "home"
  /\ ~isOpen

\* what the k-th call of handleSubmit and its timer have done, as far as they
\* have run
SubmitOutcome(k) ==
  LET s == submits[k] IN
  /\ s.isSubmittingAfter = FALSE
  /\ s.formAfter = s.form
  /\ IF s.threw
       THEN /\ s.reset = "none"
            /\ \A t \in DOMAIN timers : timers[t].change # k \/ timers[t].kind # "resetForm"
       ELSE /\ s.reset \in {"pending", "done"}
            /\ s.reset = "pending" <=>
                 \E t \in DOMAIN timers : timers[t].kind = "resetForm" /\ timers[t].change = k
            /\ s.reset = "done" =>
                 /\ s.resetWaited >= ResetDelayMs
                 /\ s.clearedAtReset

\* C18: when handleSubmit has finished isSubmitting is false and the fields are
\* as they were; a call that threw sets no reset; a call that did not throw
\* has its reset pending until, 500 ms or more later, the four fields are set to
\* the empty string, and that reset does come
C18_ResetAfterDelay ==
  /\ [](\A k \in DOMAIN submits : SubmitOutcome(k))
  /\ \A k \in 1..(MaxSubmits + 1) :
       (k \in DOMAIN submits /\ ~submits[k].threw)
         ~> (k \in DOMAIN submits /\ submits[k].reset = "done" /\ submits[k].clearedAtReset)

\* one submission has been reset after its delay and another one has thrown
C18_Witness ==
  /\ \E k \in DOMAIN submits :
       /\ submits[k].reset = "done"
       /\ submits[k].form # EmptyForm
       /\ submits[k].clearedAtReset
       /\ submits[k].resetWaited >= ResetDelayMs
  /\ \E k \in DOMAIN submits : submits[k].threw /\ submits[k].formAfter = submits[k].form

\* C19: every run of renderDiagram with a non-empty chart starts with the
\* container cleared and, once mermaid.render has settled while the diagram is
\* mounted, leaves the svg in the container if the render succeeded and the
\* error panel with the chart if it threw; a run with an empty chart renders
\* nothing and leaves the container as it was.
C19_RenderOutcomes ==
  \A k \in DOMAIN renders :
    LET r == renders[k] IN
    IF r.chart = ""
      THEN /\ r.pc = "skipped"
           /\ r.outcome = "none"
           /\ r.atStart = r.before
      ELSE /\ r.pc \in {"render", "done"}
           /\ r.atStart = << >>
           /\ (r.pc = "done" /\ r.live /\ r.outcome = "ok") => r.html = Svg(r.chart)
           /\ (r.pc = "done" /\ r.live /\ r.outcome = "threw") => r.html = ErrorPanel(r.chart)

\* a render that succeeded, a render that threw over the svg of the first, and
\* an empty chart that left the error panel in the container
C19_Witness ==
  /\ \E k \in DOMAIN renders :
       /\ renders[k].outcome = "ok" /\ renders[k].live
       /\ renders[k].html = Svg(renders[k].chart)
  /\ \E k \in DOMAIN renders :
       /\ renders[k].outcome = "threw" /\ renders[k].live
       /\ renders[k].before # << >>
       /\ renders[k].html = ErrorPanel(renders[k].chart)
  /\ \E k \in DOMAIN renders :
       /\ renders[k].chart = ""
       /\ renders[k].before # << >>
       /\ innerHTML = renders[k].before

\* the text of a heading is the title of the post
TextIsTitle(h) == h.children = <<TextNode(article.title)>>

\* C20, as stated: an h1 of the article is omitted exactly when it is the
\* first h1 of the document and its text is the title of the current post;
\* every other h1, a later one with the title as its text included, is
\* rendered.
C20_OnlyFirstTitleH1Omitted ==
  \A i \in DOMAIN article.h1s :
    ~article.h1s[i].rendered <=> (i = 1 /\ TextIsTitle(article.h1s[i]))

\* what the h1 component does: it omits every h1 whose text is the title,
\* wherever the heading stands in the document
C20_EveryTitleH1Omitted ==
  \A i \in DOMAIN article.h1s :
    ~article.h1s[i].rendered <=> TextIsTitle(article.h1s[i])

\* an article whose second h1 repeats the title and is omitted
C20_LaterTitleH1Omitted ==
  /\ Len(article.h1s) >= 2
  /\ TextIsTitle(article.h1s[2])
  /\ ~article.h1s[2].rendered

(***************************************************************************)
(* The blog-post page and the company dropdown.                            *)
(***************************************************************************)
\* the "More Articles" list of the post view
MoreArticlesShown == MoreArticles(blogPosts, slug).ret

\* the indices of the entries of BLOG_POSTS other than the current post
OtherIndices == { i \in DOMAIN blogPosts : blogPosts[i].slug # slug }

\* C21: on a blog-post page that shows a post, the "More Articles" list holds
\* the first two entries of BLOG_POSTS with another slug, in array order: never
\* the current post, never more than two, fewer than two only when fewer than
\* two other posts exist.
C21_MoreArticlesFirstTwoOthers ==
  (route = "blog" /\ currentPost # 0) =>
    LET list == MoreArticlesShown IN
    /\ Len(list) <= 2
    /\ \A k \in DOMAIN list : list[k].slug # slug
    /\ Len(list) < 2 => Cardinality(OtherIndices) = Len(list)
    /\ \A k \in DOMAIN list :
         \E i \in OtherIndices :
           /\ list[k] = blogPosts[i]
           /\ Cardinality({ j \in OtherIndices : j < i }) = k - 1

\* the page of the first post of BLOG_POSTS, whose list starts at the second
C21_Witness ==
  /\ route = "blog"
  /\ currentPost = 1
  /\ MoreArticlesShown = <<blogPosts[2], blogPosts[3]>>

\* C22: a mousedown outside the container of the company dropdown closes the
\* dropdown and a mousedown inside leaves it as it is; choosing a company sets
\* activeCompanyFilter to it and closes the dropdown; neither changes
\* activeFilters or showAllProjects, and a mousedown does not change the
\* company either.
C22_DropdownClosesOutsideAndOnSelect ==
  [][ /\ MouseDown(FALSE) =>
           /\ showCompanyDropdown' = FALSE
           /\ UNCHANGED <<activeFilters, showAllProjects, activeCompanyFilter>>
      /\ MouseDown(TRUE) =>
           /\ showCompanyDropdown' = showCompanyDropdown
           /\ UNCHANGED <<activeFilters, showAllProjects, activeCompanyFilter>>
      /\ \A c \in companyFilters :
           SelectCompany(c) =>
             /\ activeCompanyFilter' = c
             /\ showCompanyDropdown' = FALSE
             /\ UNCHANGED <<activeFilters, showAllProjects>>
    ]_vars

\* a company chosen in the dropdown, which is closed, with the technology
\* filters and the All Projects view set before still in place
C22_Witness ==
  /\ route = "home"
  /\ activeCompanyFilter \notin {"All"}
  /\ ~showCompanyDropdown
  /\ ~Includes(activeFilters, "All")
  /\ showAllProjects

\* C23: the article area of a post shows the spinner exactly while loading is
\* true, whatever error is, the error message exactly when loading is false
\* and error is not empty, and the markdown exactly when loading is false and
\* error is empty.
C23_ArticleAreaPrecedence ==
  (route = "blog" /\ currentPost # 0) =>
    /\ BlogPostView \in {"spinner", "error", "article"}
    /\ BlogPostView = "spinner" <=> loading
    /\ BlogPostView = "error" <=> (~loading /\ error # "")
    /\ BlogPostView = "article" <=> (~loading /\ error = "")

\* the spinner of a post shown while error is still set by an earlier load
C23_Witness ==
  /\ route = "blog"
  /\ currentPost # 0
  /\ loading
  /\ error # ""
  /\ BlogPostView = "spinner"

\* C24, as stated: whenever the page of a post of BLOG_POSTS displays the
\* rendered article (loading is false and error is empty), content is the
\* markdown of the current slug, whatever slug changes came before and in
\* whatever order the loads settled.
C24_DisplayedContentIsCurrentSlug ==
  (route = "blog" /\ currentPost # 0 /\ BlogPostView = "article") =>
    content = Markdown(slug)

\* the last call of loadBlogPost is the one of the current slug and has set the
\* content without setting the error
LastLoadSucceeded ==
  /\ loads # << >>
  /\ LET l == loads[Len(loads)] IN
     /\ l.live
     /\ l.slug = slug
     /\ l.pc = "done"
     /\ l.calledSetContent
     /\ ~l.calledSetError

\* C25, as stated: once the load of the current slug has completed
\* successfully, error is empty and the page displays the content of the post,
\* also when the load of the slug viewed before had failed.
C25_ErrorDoesNotOutliveItsPost ==
  (route = "blog" /\ currentPost # 0 /\ LastLoadSucceeded) =>
    /\ error = ""
    /\ BlogPostView = "article"

\* error set by the load of the post viewed before, which has finished, while
\* the load of the current post has only started
C25_ErrorKeptAcrossSlugChange ==
  /\ route = "blog"
  /\ currentPost # 0
  /\ Len(loads) = 2
  /\ loads[1].pc = "done" /\ loads[1].calledSetError /\ loads[1].slug # slug
  /\ loads[2].pc = "fetch" /\ loads[2].slug = slug
  /\ error # ""
====
